---- MODULE Spec2Model ----
(***************************************************************************)
(* qutebrowser/browser/qutescheme.py: the qute://* handler registry        *)
(* (_HANDLERS, add_handler) and the dispatcher data_for_url.               *)
(*                                                                         *)
(* Text is a sequence of code points, bytes a sequence of 0..255.  A QUrl  *)
(* is a record [scheme, host, path]; an exception is a record with a type  *)
(* field; what a call does is [kind |-> "return", ...] or                  *)
(* [kind |-> "raise", exc |-> ...].                                        *)
(***************************************************************************)
EXTENDS Integers, Sequences, FiniteSets, TLC

\* ------------------------------------------------------------------ bounds
\* longest path / host of a dispatched URL
MaxLen == 2
\* redirects a caller follows before it gives up
MaxHops == 2

\* ------------------------------------------------------------ text, QUrl
\* code points used in paths: 'a', 'A', '/'
Alphabet == {97, 65, 47}

Strings(n) == UNION {[1..k -> Alphabet] : k \in 0..n}

\* str.lower / Qt's host normalisation on one code point
LowerChar(c) == IF c >= 65 /\ c <= 90 THEN c + 32 ELSE c

\* characters QUrl accepts in a host name: letters, digits, '-', '.'
IsHostChar(c) ==
    \/ c >= 97 /\ c <= 122
    \/ c >= 65 /\ c <= 90
    \/ c >= 48 /\ c <= 57
    \/ c = 45
    \/ c = 46

\* SetHost accepting any string as a host
SetHostMutNoValidation(s) == [i \in 1..Len(s) |-> LowerChar(s[i])]

\* QUrl.setHost(s) followed by QUrl.host(): the lower-cased name when s is a
\* valid host, the empty string otherwise
SetHost(s) ==
    IF s # <<>> /\ \A i \in 1..Len(s) : IsHostChar(s[i])
    THEN [i \in 1..Len(s) |-> LowerChar(s[i])]
    ELSE <<>>

\* "qute" and a second scheme, "app"
QuteScheme == <<113, 117, 116, 101>>
AppScheme == <<97, 112, 112>>
Schemes == {QuteScheme, AppScheme}

\* hosts a QUrl can hold: empty, or a normalised valid host
Hosts == {SetHost(s) : s \in Strings(MaxLen)}

\* a QUrl with an authority has an empty path or an absolute one
Urls ==
    {u \in [scheme : Schemes, host : Hosts, path : Strings(MaxLen)] :
        u.host # <<>> => (u.path = <<>> \/ u.path[1] = 47)}

\* QUrl.toDisplayString()
ToDisplayString(u) ==
    u.scheme \o <<58>>
      \o (IF u.host # <<>> THEN <<47, 47>> \o u.host ELSE <<>>)
      \o u.path

\* ----------------------------------------------------------- exceptions
NoHandlerFound(u) == [type |-> "NoHandlerFound", args |-> u]

QuteSchemeOSError(e) == [type |-> "QuteSchemeOSError", args |-> e]

QuteSchemeError(errorstring, error) ==
    [type |-> "QuteSchemeError", errorstring |-> errorstring, error |-> error]

Redirect(u) == [type |-> "Redirect", args |-> ToDisplayString(u), url |-> u]

Raise(e) == [kind |-> "raise", exc |-> e]

Return(mimetype, data) == [kind |-> "return", mimetype |-> mimetype, data |-> data]

\* OSError and its subclasses, as matched by "except OSError"
OSErrorTypes == {"OSError", "FileNotFoundError"}

\* --------------------------------------------------------------- bodies
StrBody(s) == [type |-> "str", val |-> s]
BytesBody(b) == [type |-> "bytes", val |-> b]

\* decimal digits of n as ASCII
RECURSIVE Digits(_)
Digits(n) == IF n < 10 THEN <<48 + n>> ELSE Digits(n \div 10) \o <<48 + (n % 10)>>

\* EncodeChar with errors='replace': '?' for what UTF-8 cannot encode
EncodeCharMutReplace(c) ==
    IF c < 128 THEN <<c>>
    ELSE IF c < 2048 THEN <<192 + (c \div 64), 128 + (c % 64)>>
    ELSE IF c >= 55296 /\ c <= 57343 THEN <<63>>
    ELSE IF c < 65536
         THEN <<224 + (c \div 4096), 128 + ((c \div 64) % 64), 128 + (c % 64)>>
    ELSE <<240 + (c \div 262144), 128 + ((c \div 4096) % 64),
           128 + ((c \div 64) % 64), 128 + (c % 64)>>

\* one code point under 'utf-8' with errors='xmlcharrefreplace'
EncodeChar(c) ==
    IF c < 128 THEN <<c>>
    ELSE IF c < 2048 THEN <<192 + (c \div 64), 128 + (c % 64)>>
    ELSE IF c >= 55296 /\ c <= 57343 THEN <<38, 35>> \o Digits(c) \o <<59>>
    ELSE IF c < 65536
         THEN <<224 + (c \div 4096), 128 + ((c \div 64) % 64), 128 + (c % 64)>>
    ELSE <<240 + (c \div 262144), 128 + ((c \div 4096) % 64),
           128 + ((c \div 64) % 64), 128 + (c % 64)>>

\* str.encode('utf-8', errors='xmlcharrefreplace')
RECURSIVE Encode(_)
Encode(s) == IF s = <<>> THEN <<>> ELSE EncodeChar(Head(s)) \o Encode(Tail(s))

\* ---------------------------------------------------- jinja error page
\* " is not available with this backend"
NotAvailableMsg ==
    <<32, 105, 115, 32, 110, 111, 116, 32, 97, 118, 97, 105, 108, 97, 98, 108,
      101, 32, 119, 105, 116, 104, 32, 116, 104, 105, 115, 32, 98, 97, 99, 107,
      101, 110, 100>>

\* jinja.render('error.html', title=..., url=url, error=error, icon=''): the
\* page shows the url and the error text; '<' url '|' error '>' stands for it
RenderErrorHtml(urlstr, error) == <<60>> \o urlstr \o <<124>> \o error \o <<62>>

\* ------------------------------------------------- backends and handlers
\* usertypes.Backend
Backends == {"QtWebKit", "QtWebEngine"}
\* backend=None of add_handler.__init__
NoBackend == "None"

\* the functions that get decorated, and the names they are registered under
Functions == {"f", "g"}
Names == {<<97>>, <<97, 97>>}

\* a missing content type (None), as opposed to the empty string
NoneType == "<None>"

\* what a decorated function does when it is called: it returns a
\* (mimetype, data) pair or raises
Mimetypes == {NoneType, "", "text/html", "text/plain"}
Bodies == {StrBody(<<104, 105>>), StrBody(<<233, 55296>>), BytesBody(<<104, 105>>)}
HandlerExceptions ==
    { [type |-> "OSError", args |-> "ENOENT"],
      [type |-> "FileNotFoundError", args |-> "ENOENT"],
      QuteSchemeError("No file specified", "ValueError"),
      [type |-> "ValueError", args |-> "invalid literal"] }
Behaviours ==
    {Return(m, d) : m \in Mimetypes, d \in Bodies}
      \cup {Raise(e) : e \in HandlerExceptions}

NoEntry == [function |-> "<none>", backend |-> "<none>"]
NoResult == [kind |-> "none"]
NoUrl == [scheme |-> <<>>, host |-> <<>>, path |-> <<>>]

\* the query items a handler of this module reads; <<>> is an item that is
\* absent or empty (QUrlQuery.queryItemValue returns "" for both)
NoQuery == [offset |-> <<>>, start_time |-> <<>>, date |-> <<>>, level |-> <<>>]

\* ------------------------------------------------------- pyeval_output
\* ":pyeval was never called"
PyevalPlaceholder ==
    <<58, 112, 121, 101, 118, 97, 108, 32, 119, 97, 115, 32, 110, 101, 118, 101,
      114, 32, 99, 97, 108, 108, 101, 100>>

\* outputs of the :pyeval command: "1", "2"
PyevalValues == {<<49>>, <<50>>}

\* no write of pyeval_output has happened
NoWrite == <<>>

\* ---------------------------------------------------------------- state
VARIABLES
    HANDLERS,    \* _HANDLERS: name -> registered wrapper (function, backend)
    backend,     \* objects.backend
    lastReg,     \* history: the arguments of the latest registration per name
    overwritten, \* history: names registered again with other arguments
    aliases,     \* history: the names of the latest stacked registration
    pyeval_output, \* the module attribute pyeval_output
    lastWritten, \* history: the value of the latest write of pyeval_output
    query,       \* the query of the url argument of the call
    pc,          \* per navigation context: where its data_for_url call is
    url,         \* the url argument of the call
    orig,        \* the URL the caller first dispatched (before redirects)
    hops,        \* redirects the caller has followed for orig
    handler,     \* the local variable handler of data_for_url
    nLookup,     \* registry lookups made by the call
    nInvoke,     \* invocations of handler(url) made by the call
    calls,       \* executions of decorated functions: function, url, result
    res,         \* what handler(url) returned or raised
    outcome      \* what data_for_url returned or raised

vars == <<HANDLERS, backend, lastReg, overwritten, aliases, pyeval_output,
          lastWritten, pc, url, query, orig, hops, handler, nLookup, nInvoke,
          calls, res, outcome>>

slotVars == <<pyeval_output, lastWritten>>

regVars == <<HANDLERS, backend, lastReg, overwritten, aliases>>

Contexts == DOMAIN pc

\* ------------------------------------------------------------ add_handler
\* add_handler_call emptying the registry first
add_handler_call_MutReplaceAll(H, name, function, be) ==
    name :> [function |-> function, backend |-> be]

\* add_handler_call keeping an entry that exists (_HANDLERS.setdefault)
add_handler_call_MutKeepFirst(H, name, function, be) ==
    [k \in DOMAIN H \cup {name} |->
        IF k \in DOMAIN H THEN H[k] ELSE [function |-> function, backend |-> be]]

\* add_handler(name, backend).__call__(function): _HANDLERS[name] = self.wrapper
add_handler_call(H, name, function, be) ==
    [k \in DOMAIN H \cup {name} |->
        IF k = name THEN [function |-> function, backend |-> be] ELSE H[k]]

\* __call__ returning the wrapper in place of the function
add_handler_result_MutWrapper(function) == "<wrapper>"

\* what add_handler.__call__ returns, which a decorator stacked above it
\* receives: return function
add_handler_result(function) == function

\* add_handler.wrong_backend_handler(url)
wrong_backend_handler(u) ==
    Return("text/html",
           StrBody(RenderErrorHtml(ToDisplayString(u),
                                   ToDisplayString(u) \o NotAvailableMsg)))

\* WrongBackend with == in place of !=
WrongBackendMutEqual(entry, active) ==
    entry.backend # NoBackend /\ active = entry.backend

\* WrongBackend without the comparison with objects.backend
WrongBackendMutNoCompare(entry, active) == entry.backend # NoBackend

\* whether add_handler.wrapper takes the wrong-backend branch
WrongBackend(entry, active) ==
    entry.backend # NoBackend /\ active # entry.backend

\* add_handler.wrapper(url), b being what self._function does when called
wrapper(entry, active, u, b) ==
    IF WrongBackend(entry, active) THEN wrong_backend_handler(u) ELSE b

\* the calls of self._function that wrapper makes
wrapper_calls(entry, active, u, b) ==
    IF WrongBackend(entry, active)
    THEN <<>>
    ELSE <<[function |-> entry.function, url |-> u, result |-> b]>>

\* ------------------------------------------------- the module's handlers
\* the names the decorators of this module register, as code points
HistoryName == <<104, 105, 115, 116, 111, 114, 121>>
PyevalName == <<112, 121, 101, 118, 97, 108>>
PlainlogName == <<112, 108, 97, 105, 110, 108, 111, 103>>
LogName == <<108, 111, 103>>

\* the path "/data"
DataPath == <<47, 100, 97, 116, 97>>

\* the templates 'history.html' and 'history_nojs.html'
HistoryHtml == <<104, 105, 115, 116, 111, 114, 121, 46, 104, 116, 109, 108>>
HistoryNojsHtml == <<104, 105, 115, 116, 111, 114, 121, 95, 110, 111, 106, 115, 46, 104, 116, 109, 108>>

\* the templates 'pre.html' and 'log.html'
PreHtml == <<112, 114, 101, 46, 104, 116, 109, 108>>
LogHtml == <<108, 111, 103, 46, 104, 116, 109, 108>>

\* jinja.render(template, title=..., content=...): '<' template '|' content '>'
RenderPage(template, content) == <<60>> \o template \o <<124>> \o content \o <<62>>

IsDigit(c) == c >= 48 /\ c <= 57

\* a string without its leading sign
Unsigned(s) == IF s # <<>> /\ s[1] \in {43, 45} THEN Tail(s) ELSE s

\* whether int(s) succeeds: an optional sign and decimal digits
IsInt(s) ==
    /\ Unsigned(s) # <<>>
    /\ \A i \in 1..Len(Unsigned(s)) : IsDigit(Unsigned(s)[i])

\* whether float(s) succeeds: an optional sign, digits, at most one '.'
\* (exponents, "inf" and "nan" are left out)
IsFloat(s) ==
    LET t == Unsigned(s)
        dots == {i \in 1..Len(t) : t[i] = 46}
    IN  /\ Cardinality(dots) <= 1
        /\ \A i \in (1..Len(t)) \ dots : IsDigit(t[i])
        /\ \E i \in 1..Len(t) : IsDigit(t[i])

\* the number a string of digits denotes
RECURSIVE Number(_)
Number(s) ==
    IF s = <<>> THEN 0
    ELSE 10 * Number(SubSeq(s, 1, Len(s) - 1)) + (s[Len(s)] - 48)

\* whether datetime.strptime(s, "%Y-%m-%d") succeeds: year-month-day with a
\* month in 1..12 and a day in 1..31 (the length of the month is left out)
IsIsoDate(s) ==
    LET dashes == {i \in 1..Len(s) : s[i] = 45}
    IN  /\ Cardinality(dashes) = 2
        /\ LET d1 == CHOOSE i \in dashes : \A j \in dashes : i <= j
               d2 == CHOOSE i \in dashes : \A j \in dashes : i >= j
               y == SubSeq(s, 1, d1 - 1)
               m == SubSeq(s, d1 + 1, d2 - 1)
               d == SubSeq(s, d2 + 1, Len(s))
           IN  /\ Len(y) = 4
               /\ Len(m) \in {1, 2}
               /\ Len(d) \in {1, 2}
               /\ \A i \in 1..Len(y) : IsDigit(y[i])
               /\ \A i \in 1..Len(m) : IsDigit(m[i])
               /\ \A i \in 1..Len(d) : IsDigit(d[i])
               /\ Number(m) >= 1 /\ Number(m) <= 12
               /\ Number(d) >= 1 /\ Number(d) <= 31

\* what a handler finds around it when it runs: the config value
\* content/allow-javascript, qtutils.is_qtwebkit_ng(), whether
\* log.ram_handler is None, and whether log.ram_handler.dump_log (which is
\* not part of this file) accepts a level it does not know
Envs ==
    [allow_javascript : BOOLEAN, webkit_ng : BOOLEAN, ram_handler : BOOLEAN,
     dump_log_lenient : BOOLEAN]

\* datetime.date.today()
Today == <<50, 48, 49, 55, 45, 48, 54, 45, 48, 49>>

\* the names of the log levels: vdebug, debug, info, warning, error, critical
LogLevels == {<<118, 100, 101, 98, 117, 103>>, <<100, 101, 98, 117, 103>>, <<105, 110, 102, 111>>, <<119, 97, 114, 110, 105, 110, 103>>, <<101, 114, 114, 111, 114>>, <<99, 114, 105, 116, 105, 99, 97, 108>>}

\* qute_history with the ValueError of int() and float() left uncaught
qute_history_MutNoValidation(u, q, active, e) ==
    IF u.path = DataPath
    THEN IF (q.offset # <<>> /\ ~IsInt(q.offset))
              \/ (q.start_time # <<>> /\ ~IsFloat(q.start_time))
         THEN Raise([type |-> "ValueError", args |-> "invalid literal"])
         ELSE Return("text/html", StrBody(<<91, 93>>))
    ELSE IF e.allow_javascript /\ (active = "QtWebEngine" \/ e.webkit_ng)
         THEN Return("text/html", StrBody(RenderPage(HistoryHtml, <<>>)))
    ELSE Return("text/html",
                StrBody(RenderPage(HistoryNojsHtml,
                                   IF q.date # <<>> /\ IsIsoDate(q.date)
                                   THEN q.date ELSE Today)))

\* qute_history(url)
qute_history(u, q, active, e) ==
    IF u.path = DataPath
    THEN IF q.offset # <<>> /\ ~IsInt(q.offset)
         THEN Raise(QuteSchemeError("Query parameter offset is invalid",
                                    "ValueError"))
         ELSE IF q.start_time # <<>> /\ ~IsFloat(q.start_time)
         THEN Raise(QuteSchemeError("Query parameter start_time is invalid",
                                    "ValueError"))
         \* json.dumps(history_data(start_time, offset)) of an empty history
         ELSE Return("text/html", StrBody(<<91, 93>>))
    ELSE IF e.allow_javascript /\ (active = "QtWebEngine" \/ e.webkit_ng)
         THEN Return("text/html", StrBody(RenderPage(HistoryHtml, <<>>)))
    \* an invalid date is logged and today's date is kept
    ELSE Return("text/html",
                StrBody(RenderPage(HistoryNojsHtml,
                                   IF q.date # <<>> /\ IsIsoDate(q.date)
                                   THEN q.date ELSE Today)))

\* log.ram_handler.dump_log(html=..., level=level): the log from that level
\* on; for a level it does not know it falls back to the whole log or raises
dump_log(level, e) ==
    IF level \in LogLevels THEN Return("text/plain", StrBody(level))
    ELSE IF e.dump_log_lenient THEN Return("text/plain", StrBody(<<118, 100, 101, 98, 117, 103>>))
    ELSE Raise([type |-> "KeyError", args |-> level])

\* "Log output was disabled."
LogDisabledText ==
    <<76, 111, 103, 32, 111, 117,
      116, 112, 117, 116, 32, 119, 97, 115, 32, 100, 105, 115, 97, 98, 108, 101, 100, 46>>

\* qute_plainlog(url) (template 'pre.html', disabled being the text above)
\* and qute_log(url) (template 'log.html', disabled being None, rendered
\* empty)
qute_log(template, disabled, q, e) ==
    IF ~e.ram_handler
    THEN Return("text/html", StrBody(RenderPage(template, disabled)))
    ELSE LET level == IF q.level = <<>> THEN <<118, 100, 101, 98, 117, 103>> ELSE q.level
             text == dump_log(level, e)
         IN  IF text.kind = "raise" THEN text
             ELSE Return("text/html", StrBody(RenderPage(template, text.data.val)))

\* qute_pyeval rendering the value pyeval_output had when the module was
\* loaded
qute_pyeval_MutStale(content) ==
    Return("text/html", StrBody(RenderPage(PreHtml, PyevalPlaceholder)))

\* qute_pyeval(_url), content being pyeval_output when it runs
qute_pyeval(content) ==
    Return("text/html", StrBody(RenderPage(PreHtml, content)))

\* what a decorated function can do when it is called with the URL u and
\* the query q
FunctionBehaviours(function, u, q) ==
    IF function = "qute_history"
    THEN {qute_history(u, q, backend, e) : e \in Envs}
    ELSE IF function = "qute_plainlog"
    THEN {qute_log(PreHtml, LogDisabledText, q, e) : e \in Envs}
    ELSE IF function = "qute_log"
    THEN {qute_log(LogHtml, <<>>, q, e) : e \in Envs}
    ELSE IF function = "qute_pyeval"
    THEN {qute_pyeval(pyeval_output)}
    ELSE Behaviours

\* ----------------------------------------------------------- data_for_url
\* new_url taking the scheme of the dispatched URL
NewUrlMutInputScheme(u) == [scheme |-> u.scheme, host |-> SetHost(u.path), path |-> <<47>>]

\* new_url without new_url.setPath('/')
NewUrlMutNoPath(u) == [scheme |-> QuteScheme, host |-> SetHost(u.path), path |-> <<>>]

\* new_url of data_for_url
NewUrl(u) == [scheme |-> QuteScheme, host |-> SetHost(u.path), path |-> <<47>>]

\* IsRedirect without the "if new_url.host()" test
IsRedirectMutNoHostTest(u) == u.path # <<>> /\ u.host = <<>>

\* IsRedirect sparing the names that have a handler
IsRedirectMutUnregisteredOnly(u) ==
    /\ u.path # <<>>
    /\ u.host = <<>>
    /\ SetHost(u.path) # <<>>
    /\ SetHost(u.path) \notin DOMAIN HANDLERS

\* the condition under which data_for_url raises Redirect
IsRedirect(u) == u.path # <<>> /\ u.host = <<>> /\ NewUrl(u).host # <<>>

\* Lookup falling back to some registered handler instead of failing
LookupMutFallback(H, host) ==
    IF host \in DOMAIN H THEN H[host]
    ELSE IF DOMAIN H # {} THEN H[CHOOSE k \in DOMAIN H : TRUE]
    ELSE NoEntry

\* _HANDLERS[host], NoEntry standing for KeyError
Lookup(H, host) == IF host \in DOMAIN H THEN H[host] ELSE NoEntry

\* HandleResult without the assert (as under python -O)
HandleResultMutNoAssert(r, u) ==
    IF r.kind = "raise"
    THEN IF r.exc.type \in OSErrorTypes
         THEN Raise(QuteSchemeOSError(r.exc))
         ELSE r
    ELSE IF r.mimetype = "text/html" /\ r.data.type = "str"
         THEN Return(r.mimetype, BytesBody(Encode(r.data.val)))
    ELSE Return(r.mimetype, r.data)

\* HandleResult without the isinstance(data, str) test: bytes has no encode
HandleResultMutNoIsinstance(r, u) ==
    IF r.kind = "raise"
    THEN IF r.exc.type \in OSErrorTypes
         THEN Raise(QuteSchemeOSError(r.exc))
         ELSE r
    ELSE IF r.mimetype = NoneType
         THEN Raise([type |-> "AssertionError", args |-> u])
    ELSE IF r.mimetype = "text/html"
         THEN IF r.data.type = "str"
              THEN Return(r.mimetype, BytesBody(Encode(r.data.val)))
              ELSE Raise([type |-> "AttributeError", args |-> "encode"])
    ELSE Return(r.mimetype, r.data)

\* HandleResult without the data.encode(...) branch
HandleResultMutNoEncode(r, u) ==
    IF r.kind = "raise"
    THEN IF r.exc.type \in OSErrorTypes
         THEN Raise(QuteSchemeOSError(r.exc))
         ELSE r
    ELSE IF r.mimetype = NoneType
         THEN Raise([type |-> "AssertionError", args |-> u])
    ELSE Return(r.mimetype, r.data)

\* HandleResult with "except Exception" in place of "except OSError"
HandleResultMutCatchAll(r, u) ==
    IF r.kind = "raise"
    THEN IF r.exc.type # "QuteSchemeError"
         THEN Raise(QuteSchemeOSError(r.exc))
         ELSE r
    ELSE IF r.mimetype = NoneType
         THEN Raise([type |-> "AssertionError", args |-> u])
    ELSE IF r.mimetype = "text/html" /\ r.data.type = "str"
         THEN Return(r.mimetype, BytesBody(Encode(r.data.val)))
    ELSE Return(r.mimetype, r.data)

\* the try/except around handler(url), the assert and the encoding
HandleResult(r, u) ==
    IF r.kind = "raise"
    THEN IF r.exc.type \in OSErrorTypes
         THEN Raise(QuteSchemeOSError(r.exc))
         ELSE r
    ELSE IF r.mimetype = NoneType
         THEN Raise([type |-> "AssertionError", args |-> u])
    ELSE IF r.mimetype = "text/html" /\ r.data.type = "str"
         THEN Return(r.mimetype, BytesBody(Encode(r.data.val)))
    ELSE Return(r.mimetype, r.data)

\* data_for_url(url) as one function of the registry, the active backend and
\* what the decorated function does if it gets called
data_for_url(H, active, u, b) ==
    IF IsRedirect(u) THEN Raise(Redirect(NewUrl(u)))
    ELSE IF Lookup(H, u.host) = NoEntry THEN Raise(NoHandlerFound(u))
    ELSE HandleResult(wrapper(Lookup(H, u.host), active, u, b), u)

\* ------------------------------------------------------------------ Init
\* the module after lines 43-46: no handler registered yet; the decorators
\* that follow are registrations
InitContexts(C) ==
    /\ pc = [c \in C |-> "idle"]
    /\ url = [c \in C |-> NoUrl]
    /\ query = [c \in C |-> NoQuery]
    /\ orig = [c \in C |-> NoUrl]
    /\ hops = [c \in C |-> 0]
    /\ handler = [c \in C |-> NoEntry]
    /\ nLookup = [c \in C |-> 0]
    /\ nInvoke = [c \in C |-> 0]
    /\ calls = [c \in C |-> <<>>]
    /\ res = [c \in C |-> NoResult]
    /\ outcome = [c \in C |-> NoResult]

Init ==
    /\ HANDLERS = <<>>
    /\ lastReg = <<>>
    /\ overwritten = {}
    /\ aliases = {}
    /\ backend \in Backends
    /\ pyeval_output = PyevalPlaceholder
    /\ lastWritten = NoWrite
    /\ InitContexts({1})

\* --------------------------------------------------------------- actions
\* @add_handler(name, backend=be) applied to function; no call is running
Register(name, function, be) ==
    /\ \A c \in Contexts : pc[c] = "idle"
    /\ HANDLERS' = add_handler_call(HANDLERS, name, function, be)
    /\ lastReg' = (name :> [function |-> function, backend |-> be]) @@ lastReg
    /\ overwritten' =
         IF name \in DOMAIN lastReg
              /\ lastReg[name] # [function |-> function, backend |-> be]
         THEN overwritten \cup {name}
         ELSE overwritten
    /\ aliases' = IF name \in aliases THEN {} ELSE aliases
    /\ UNCHANGED <<backend, slotVars, pc, url, query, orig, hops, handler,
                   nLookup, nInvoke, calls, res, outcome>>

\* two stacked decorators on one function, as on qute_version:
\*   @add_handler(n1, backend=be1)
\*   @add_handler(n2, backend=be2)
\*   def function(url): ...
\* the lower decorator is applied first, the upper one to what it returns
RegisterStacked(n1, n2, function, be1, be2) ==
    /\ \A c \in Contexts : pc[c] = "idle"
    /\ n1 # n2
    /\ LET inner == add_handler_call(HANDLERS, n2, function, be2)
           returned == add_handler_result(function)
           new == (n1 :> [function |-> returned, backend |-> be1])
                    @@ (n2 :> [function |-> function, backend |-> be2])
       IN  /\ HANDLERS' = add_handler_call(inner, n1, returned, be1)
           /\ lastReg' = new @@ lastReg
           /\ overwritten' =
                overwritten \cup
                    {n \in {n1, n2} : n \in DOMAIN lastReg /\ lastReg[n] # new[n]}
    /\ aliases' = {n1, n2}
    /\ UNCHANGED <<backend, slotVars, pc, url, query, orig, hops, handler,
                   nLookup, nInvoke, calls, res, outcome>>

\* a navigation context calls data_for_url on the URL u with the query q:
\* path = url.path(), host = url.host()
StartQuery(c, u, q) ==
    /\ pc[c] = "idle"
    /\ pc' = [pc EXCEPT ![c] = "canonicalizing"]
    /\ url' = [url EXCEPT ![c] = u]
    /\ query' = [query EXCEPT ![c] = q]
    /\ orig' = [orig EXCEPT ![c] = u]
    /\ UNCHANGED <<regVars, slotVars, hops, handler, nLookup, nInvoke, calls,
                   res, outcome>>

\* a navigation context calls data_for_url on a URL without a query
Start(c, u) == StartQuery(c, u, NoQuery)

\* if path and not host: ... if new_url.host(): raise Redirect(new_url)
Canonicalize(c) ==
    /\ pc[c] = "canonicalizing"
    /\ IF IsRedirect(url[c])
       THEN /\ outcome' = [outcome EXCEPT ![c] = Raise(Redirect(NewUrl(url[c])))]
            /\ pc' = [pc EXCEPT ![c] = "done"]
       ELSE /\ pc' = [pc EXCEPT ![c] = "resolving"]
            /\ UNCHANGED outcome
    /\ UNCHANGED <<regVars, slotVars, url, query, orig, hops, handler, nLookup,
                   nInvoke, calls, res>>

\* Resolve keeping the handler it found in one place for all contexts
ResolveMutSharedHandler(c) ==
    /\ pc[c] = "resolving"
    /\ nLookup' = [nLookup EXCEPT ![c] = @ + 1]
    /\ IF Lookup(HANDLERS, url[c].host) = NoEntry
       THEN /\ outcome' = [outcome EXCEPT ![c] = Raise(NoHandlerFound(url[c]))]
            /\ pc' = [pc EXCEPT ![c] = "done"]
            /\ UNCHANGED handler
       ELSE /\ handler' = [x \in Contexts |-> Lookup(HANDLERS, url[c].host)]
            /\ pc' = [pc EXCEPT ![c] = "invoking"]
            /\ UNCHANGED outcome
    /\ UNCHANGED <<regVars, slotVars, url, query, orig, hops, nInvoke, calls, res>>

\* try: handler = _HANDLERS[host]  except KeyError: raise NoHandlerFound(url)
Resolve(c) ==
    /\ pc[c] = "resolving"
    /\ nLookup' = [nLookup EXCEPT ![c] = @ + 1]
    /\ IF Lookup(HANDLERS, url[c].host) = NoEntry
       THEN /\ outcome' = [outcome EXCEPT ![c] = Raise(NoHandlerFound(url[c]))]
            /\ pc' = [pc EXCEPT ![c] = "done"]
            /\ UNCHANGED handler
       ELSE /\ handler' = [handler EXCEPT ![c] = Lookup(HANDLERS, url[c].host)]
            /\ pc' = [pc EXCEPT ![c] = "invoking"]
            /\ UNCHANGED outcome
    /\ UNCHANGED <<regVars, slotVars, url, query, orig, hops, nInvoke, calls, res>>

\* Invoke calling the handler a second time after an OSError
InvokeMutRetry(c) ==
    /\ pc[c] = "invoking"
    /\ \E b \in FunctionBehaviours(handler[c].function, url[c], query[c]) :
         LET r == wrapper(handler[c], backend, url[c], b)
             again == r.kind = "raise" /\ r.exc.type \in OSErrorTypes
             once == wrapper_calls(handler[c], backend, url[c], b)
         IN  /\ res' = [res EXCEPT ![c] = r]
             /\ calls' = [calls EXCEPT
                            ![c] = @ \o once \o (IF again THEN once ELSE <<>>)]
             /\ nInvoke' = [nInvoke EXCEPT ![c] = @ + (IF again THEN 2 ELSE 1)]
    /\ outcome' = [outcome EXCEPT ![c] = HandleResult(res'[c], url[c])]
    /\ pc' = [pc EXCEPT ![c] = "done"]
    /\ UNCHANGED <<regVars, slotVars, url, query, orig, hops, handler, nLookup>>

\* mimetype, data = handler(url) with its except clauses, the assert, the
\* encoding and the return; b is what the decorated function does if called
Invoke(c) ==
    /\ pc[c] = "invoking"
    /\ \E b \in FunctionBehaviours(handler[c].function, url[c], query[c]) :
         /\ res' = [res EXCEPT ![c] = wrapper(handler[c], backend, url[c], b)]
         /\ calls' = [calls EXCEPT
                        ![c] = @ \o wrapper_calls(handler[c], backend, url[c], b)]
    /\ nInvoke' = [nInvoke EXCEPT ![c] = @ + 1]
    /\ outcome' = [outcome EXCEPT ![c] = HandleResult(res'[c], url[c])]
    /\ pc' = [pc EXCEPT ![c] = "done"]
    /\ UNCHANGED <<regVars, slotVars, url, query, orig, hops, handler, nLookup>>

\* the caller follows a Redirect: it calls data_for_url(e.url)
Redispatch(c) ==
    /\ pc[c] = "done"
    /\ outcome[c].kind = "raise"
    /\ outcome[c].exc.type = "Redirect"
    /\ hops[c] < MaxHops
    /\ hops' = [hops EXCEPT ![c] = @ + 1]
    /\ url' = [url EXCEPT ![c] = outcome[c].exc.url]
    /\ query' = [query EXCEPT ![c] = NoQuery]
    /\ pc' = [pc EXCEPT ![c] = "canonicalizing"]
    /\ handler' = [handler EXCEPT ![c] = NoEntry]
    /\ nLookup' = [nLookup EXCEPT ![c] = 0]
    /\ nInvoke' = [nInvoke EXCEPT ![c] = 0]
    /\ calls' = [calls EXCEPT ![c] = <<>>]
    /\ res' = [res EXCEPT ![c] = NoResult]
    /\ outcome' = [outcome EXCEPT ![c] = NoResult]
    /\ UNCHANGED <<regVars, slotVars, orig>>

\* the caller has used the outcome; the context is free for the next call
Finish(c) ==
    /\ pc[c] = "done"
    /\ pc' = [pc EXCEPT ![c] = "idle"]
    /\ url' = [url EXCEPT ![c] = NoUrl]
    /\ query' = [query EXCEPT ![c] = NoQuery]
    /\ orig' = [orig EXCEPT ![c] = NoUrl]
    /\ hops' = [hops EXCEPT ![c] = 0]
    /\ handler' = [handler EXCEPT ![c] = NoEntry]
    /\ nLookup' = [nLookup EXCEPT ![c] = 0]
    /\ nInvoke' = [nInvoke EXCEPT ![c] = 0]
    /\ calls' = [calls EXCEPT ![c] = <<>>]
    /\ res' = [res EXCEPT ![c] = NoResult]
    /\ outcome' = [outcome EXCEPT ![c] = NoResult]
    /\ UNCHANGED <<regVars, slotVars>>

\* the :pyeval command stores its output: qutescheme.pyeval_output = v
SetPyevalOutput(v) ==
    /\ pyeval_output' = v
    /\ lastWritten' = v
    /\ UNCHANGED <<regVars, pc, url, query, orig, hops, handler, nLookup,
                   nInvoke, calls, res, outcome>>

Next ==
    \/ \E n \in Names, f \in Functions, be \in Backends \cup {NoBackend} :
         Register(n, f, be)
    \/ \E n1 \in Names, n2 \in Names, f \in Functions,
          be1 \in Backends \cup {NoBackend}, be2 \in Backends \cup {NoBackend} :
         RegisterStacked(n1, n2, f, be1, be2)
    \/ \E c \in Contexts, u \in Urls : Start(c, u)
    \/ \E c \in Contexts : Canonicalize(c)
    \/ \E c \in Contexts : Resolve(c)
    \/ \E c \in Contexts : Invoke(c)
    \/ \E c \in Contexts : Redispatch(c)
    \/ \E c \in Contexts : Finish(c)

Spec == Init /\ [][Next]_vars

\* ------------------------------------- the module with its own handlers
\* the registry after the decorators of this module have run (those of the
\* handlers modelled here)
ModuleHandlers ==
    (HistoryName :> [function |-> "qute_history", backend |-> NoBackend])
    @@ (PyevalName :> [function |-> "qute_pyeval", backend |-> NoBackend])
    @@ (PlainlogName :> [function |-> "qute_plainlog", backend |-> NoBackend])
    @@ (LogName :> [function |-> "qute_log", backend |-> NoBackend])

\* the URL qute://host/path
QuteUrl(host, path) == [scheme |-> QuteScheme, host |-> host, path |-> path]

\* values of the query items: absent, well-formed, malformed
Offsets == {<<>>, <<53>>, <<120>>}
StartTimes == {<<>>, <<49, 46, 53>>, <<120>>}
Dates == {<<>>, <<50, 48, 49, 55, 45, 48, 49, 45, 48, 50>>, <<50, 48, 49, 55, 45, 49, 51, 45, 48, 50>>}
Levels == {<<>>, <<105, 110, 102, 111>>, <<120>>}

\* the calls made on the module: the history pages with offset, start_time
\* and date, the log pages with level, the pyeval page, and a handler
\* registered later by its canonical and its shorthand URL
ModuleRequests ==
    {[url |-> QuteUrl(HistoryName, p), query |-> q] :
        p \in {<<47>>, DataPath},
        q \in [offset : Offsets, start_time : StartTimes, date : Dates,
               level : {<<>>}]}
    \cup {[url |-> QuteUrl(n, <<47>>), query |-> q] :
            n \in {PlainlogName, LogName},
            q \in [offset : {<<>>}, start_time : {<<>>}, date : {<<>>},
                   level : Levels]}
    \cup {[url |-> u, query |-> NoQuery] :
            u \in {QuteUrl(PyevalName, <<47>>), QuteUrl(<<97>>, <<47>>),
                   QuteUrl(<<97, 97>>, <<47>>),
                   [scheme |-> QuteScheme, host |-> <<>>, path |-> <<97>>]}}

InitModule ==
    /\ HANDLERS = ModuleHandlers
    /\ lastReg = ModuleHandlers
    /\ overwritten = {}
    /\ aliases = {}
    /\ backend \in Backends
    /\ pyeval_output = PyevalPlaceholder
    /\ lastWritten = NoWrite
    /\ InitContexts({1})

NextModule ==
    \/ \E n \in Names, f \in Functions, be \in Backends \cup {NoBackend} :
         Register(n, f, be)
    \/ \E c \in Contexts, r \in ModuleRequests : StartQuery(c, r.url, r.query)
    \/ \E c \in Contexts : Canonicalize(c)
    \/ \E c \in Contexts : Resolve(c)
    \/ \E c \in Contexts : Invoke(c)
    \/ \E c \in Contexts : Redispatch(c)
    \/ \E c \in Contexts : Finish(c)
    \/ \E v \in PyevalValues : SetPyevalOutput(v)

SpecModule == InitModule /\ [][NextModule]_vars

\* --------------------------------- several navigation contexts at once
\* the registry is populated before any call: the pyeval page and one
\* handler with or without a backend requirement
ConcHandlers ==
    {(PyevalName :> [function |-> "qute_pyeval", backend |-> NoBackend])
        @@ (<<97>> :> [function |-> "f", backend |-> be]) :
        be \in Backends \cup {NoBackend}}

ConcUrls ==
    {QuteUrl(PyevalName, <<47>>), QuteUrl(<<97>>, <<47>>),
     QuteUrl(<<97, 97>>, <<47>>),
     [scheme |-> QuteScheme, host |-> <<>>, path |-> <<97>>]}

InitConc ==
    /\ HANDLERS \in ConcHandlers
    /\ lastReg = HANDLERS
    /\ overwritten = {}
    /\ aliases = {}
    /\ backend \in Backends
    /\ pyeval_output = PyevalPlaceholder
    /\ lastWritten = NoWrite
    /\ InitContexts({1, 2})

NextConc ==
    \/ \E c \in Contexts, u \in ConcUrls : Start(c, u)
    \/ \E c \in Contexts : Canonicalize(c)
    \/ \E c \in Contexts : Resolve(c)
    \/ \E c \in Contexts : Invoke(c)
    \/ \E c \in Contexts : Redispatch(c)
    \/ \E c \in Contexts : Finish(c)
    \/ \E v \in PyevalValues : SetPyevalOutput(v)

SpecConc == InitConc /\ [][NextConc]_vars

\* -------------------------------------------------------------- typing
TypeOK ==
    /\ DOMAIN HANDLERS \subseteq Names \cup DOMAIN ModuleHandlers
    /\ backend \in Backends
    /\ \A c \in Contexts :
         /\ pc[c] \in {"idle", "canonicalizing", "resolving", "invoking", "done"}
         /\ hops[c] \in 0..MaxHops

\* ------------------------------------------------------ claim vocabulary
Done(c) == pc[c] = "done"

Raised(c, type) == outcome[c].kind = "raise" /\ outcome[c].exc.type = type

\* a string QUrl accepts as a host
ValidAuthority(s) == s # <<>> /\ \A i \in 1..Len(s) : IsHostChar(s[i])

\* the "scheme:name" form: no host, and a path that is a valid authority
IsShorthand(u) == u.host = <<>> /\ ValidAuthority(u.path)

\* the terminal outcome of context c's call, in the words of the design
OutcomeClass(c) ==
    IF outcome[c].kind = "return" THEN "Success"
    ELSE IF outcome[c].kind # "raise" THEN "none"
    ELSE IF outcome[c].exc.type = "Redirect" THEN "Redirect"
    ELSE IF outcome[c].exc.type = "NoHandlerFound" THEN "NotFound"
    ELSE IF outcome[c].exc.type = "QuteSchemeOSError" THEN "HandlerIOError"
    ELSE IF outcome[c].exc.type = "QuteSchemeError" THEN "HandlerSignaledError"
    ELSE IF res[c].kind = "raise" /\ outcome[c] = res[c] THEN "UnhandledFault"
    ELSE IF outcome[c].exc.type = "AssertionError" THEN "AssertionFault"
    ELSE "other"

ListedOutcomes ==
    {"Success", "Redirect", "NotFound", "HandlerIOError",
     "HandlerSignaledError", "UnhandledFault"}

\* one outcome per call, reached at the stage the design gives it, the
\* handler invoked at most once
OneOutcome(c, classes) ==
    /\ Done(c) <=> outcome[c] # NoResult
    /\ nInvoke[c] <= 1
    /\ Done(c) =>
         /\ OutcomeClass(c) \in classes
         /\ OutcomeClass(c) \in {"Redirect", "NotFound"} <=> nInvoke[c] = 0

\* ---------------------------------------------------------------- C1
\* C1 as stated: every call of data_for_url ends in exactly one outcome out
\* of Success, Redirect, NotFound, HandlerIOError, HandlerSignaledError and
\* a handler exception escaping, and invokes the handler at most once.
C1_ListedOutcomesOnly == \A c \in Contexts : OneOutcome(c, ListedOutcomes)

\* C1 amended: the outcomes are the six listed ones and the AssertionError
\* that data_for_url itself raises when the handler's content type is None;
\* exactly one per call, the handler invoked at most once.
C1_OneTerminalOutcome ==
    \A c \in Contexts : OneOutcome(c, ListedOutcomes \cup {"AssertionFault"})

\* a call that ended in data_for_url's own assertion, the handler having
\* returned once
C1_Witness ==
    \E c \in Contexts :
        /\ Done(c)
        /\ OutcomeClass(c) = "AssertionFault"
        /\ nInvoke[c] = 1
        /\ res[c].kind = "return"

\* ---------------------------------------------------------------- C2
\* C2 as stated: a dispatch of a URL whose host has no registry entry ends
\* in NoHandlerFound carrying that URL, with no handler invoked.
C2_UnregisteredIsNotFound ==
    \A c \in Contexts :
        (Done(c) /\ url[c].host \notin DOMAIN HANDLERS) =>
            /\ outcome[c] = Raise(NoHandlerFound(url[c]))
            /\ nInvoke[c] = 0
            /\ calls[c] = <<>>

\* C2 amended: a dispatch of a URL whose host has no registry entry, other
\* than a shorthand URL (empty host, path a valid authority), ends in
\* NoHandlerFound carrying that URL; no handler is invoked and nothing else
\* is raised.
C2_UnregisteredNonShorthandIsNotFound ==
    \A c \in Contexts :
        (pc[c] # "idle" /\ url[c].host \notin DOMAIN HANDLERS
           /\ ~IsShorthand(url[c])) =>
            /\ nInvoke[c] = 0
            /\ calls[c] = <<>>
            /\ handler[c] = NoEntry
            /\ pc[c] # "invoking"
            /\ Done(c) => outcome[c] = Raise(NoHandlerFound(url[c]))

\* an unregistered, non-empty host was dispatched while other handlers were
\* registered, and the call ended in NoHandlerFound
C2_Witness ==
    \E c \in Contexts :
        /\ Done(c)
        /\ url[c].host # <<>>
        /\ url[c].host \notin DOMAIN HANDLERS
        /\ DOMAIN HANDLERS # {}
        /\ outcome[c] = Raise(NoHandlerFound(url[c]))

\* ---------------------------------------------------------------- C3
\* the QUrl of "scheme://name/" for the shorthand URL "scheme:name"
CanonicalForm(u) ==
    [scheme |-> u.scheme,
     host |-> [i \in 1..Len(u.path) |-> LowerChar(u.path[i])],
     path |-> <<47>>]

\* what the decorated function did in context c's call, if it ran
BehaviourOf(c) ==
    IF calls[c] # <<>> THEN calls[c][1].result ELSE CHOOSE b \in Behaviours : TRUE

\* the caller of context c dispatched a shorthand URL: the first call raises
\* Redirect to the canonical form, the call on the redirect target ends as a
\* direct call on the canonical form does, and there is no second redirect
ShorthandAsCanonical(c) ==
    /\ hops[c] <= 1
    /\ (Done(c) /\ hops[c] = 0) =>
          outcome[c] = Raise(Redirect(CanonicalForm(orig[c])))
    /\ (Done(c) /\ hops[c] = 1) =>
          /\ ~Raised(c, "Redirect")
          /\ outcome[c] =
               data_for_url(HANDLERS, backend, CanonicalForm(orig[c]), BehaviourOf(c))

\* C3 as stated: for every valid authority name and every scheme, the
\* shorthand "scheme:name" yields one Redirect to "scheme://name/", and the
\* dispatch of that target ends as the dispatch of "scheme://name/" does.
C3_ShorthandSameAsCanonicalAnyScheme ==
    \A c \in Contexts : IsShorthand(orig[c]) => ShorthandAsCanonical(c)

\* C3 amended: for every valid authority name, the shorthand "qute:name"
\* yields exactly one Redirect to "qute://name/", and the dispatch of that
\* target ends as the dispatch of "qute://name/" does.  (With another scheme
\* the Redirect still goes to "qute://name/".)
C3_QuteShorthandSameAsCanonical ==
    \A c \in Contexts :
        (IsShorthand(orig[c]) /\ orig[c].scheme = QuteScheme) =>
            ShorthandAsCanonical(c)

\* a qute shorthand with an upper-case name was followed through its one
\* redirect to a registered handler, which ran
C3_Witness ==
    \E c \in Contexts :
        /\ Done(c)
        /\ hops[c] = 1
        /\ orig[c].scheme = QuteScheme
        /\ orig[c].host = <<>>
        /\ orig[c].path = <<65>>
        /\ calls[c] # <<>>
        /\ outcome[c].kind = "return"

\* ---------------------------------------------------------------- C4
\* C4: the call on the target of a Redirect never raises Redirect: a caller
\* that follows redirects has a non-Redirect outcome after at most one hop.
C4_RedirectTargetNotRedirected ==
    \A c \in Contexts :
        /\ hops[c] <= 1
        /\ (Done(c) /\ hops[c] >= 1) => ~Raised(c, "Redirect")
        /\ (Done(c) /\ Raised(c, "Redirect")) =>
              /\ outcome[c].exc.url.host # <<>>
              /\ outcome[c].exc.url.path = <<47>>

\* a redirect was followed and the second call ended in NoHandlerFound
C4_Witness ==
    \E c \in Contexts :
        /\ Done(c)
        /\ hops[c] = 1
        /\ Raised(c, "NoHandlerFound")

\* ---------------------------------------------------------------- C5
\* C5 as stated: every successful dispatch returns bytes; a text body is
\* encoded to bytes whatever content type the handler declares, the content
\* type unchanged.
C5_SuccessIsAlwaysBytes ==
    \A c \in Contexts :
        (Done(c) /\ outcome[c].kind = "return") =>
            /\ outcome[c].data.type = "bytes"
            /\ outcome[c].mimetype = res[c].mimetype
            /\ res[c].data.type = "str" =>
                  outcome[c].data.val = Encode(res[c].data.val)

\* C5 amended: when a handler returns its body as text with content type
\* 'text/html', data_for_url returns 'text/html' with the body encoded to
\* bytes; a text body with any other content type (such as
\* ("text/plain", "hi")) is returned as the same text, not as bytes.
C5_HtmlTextIsEncoded ==
    \A c \in Contexts :
        (Done(c) /\ outcome[c].kind = "return" /\ res[c].data.type = "str") =>
            /\ outcome[c].mimetype = res[c].mimetype
            /\ IF res[c].mimetype = "text/html"
               THEN outcome[c].data = BytesBody(Encode(res[c].data.val))
               ELSE outcome[c].data = res[c].data
            /\ res[c] = Return("text/html", StrBody(<<104, 105>>)) =>
                  outcome[c] = Return("text/html", BytesBody(<<104, 105>>))

\* a decorated function returned ("text/html", "hi") and the call returned
\* ("text/html", b"hi")
C5_Witness ==
    \E c \in Contexts :
        /\ Done(c)
        /\ calls[c] # <<>>
        /\ res[c] = Return("text/html", StrBody(<<104, 105>>))
        /\ outcome[c] = Return("text/html", BytesBody(<<104, 105>>))

\* ---------------------------------------------------------------- C6
\* C6: an OSError of the handler becomes QuteSchemeOSError carrying that
\* exception; a QuteSchemeError of the handler reaches the caller as it is,
\* errorstring and error unchanged; any other exception of the handler
\* reaches the caller as it is.
C6_FailuresClassifiedByKind ==
    \A c \in Contexts :
        (Done(c) /\ res[c].kind = "raise") =>
            /\ calls[c] # <<>>
            /\ res[c] = calls[c][1].result
            /\ IF res[c].exc.type \in {"OSError", "FileNotFoundError"}
               THEN outcome[c] =
                      Raise([type |-> "QuteSchemeOSError", args |-> res[c].exc])
               ELSE outcome[c] = res[c]
            /\ res[c].exc.type = "QuteSchemeError" =>
                  /\ outcome[c].exc.errorstring = res[c].exc.errorstring
                  /\ outcome[c].exc.error = res[c].exc.error
            /\ res[c].exc.type = "ValueError" =>
                  OutcomeClass(c) = "UnhandledFault"

\* a decorated function raised ValueError and the caller got that ValueError
C6_Witness ==
    \E c \in Contexts :
        /\ Done(c)
        /\ res[c].kind = "raise"
        /\ res[c].exc.type = "ValueError"
        /\ outcome[c] = res[c]

\* ---------------------------------------------------------------- C7
\* the page wrong_backend_handler renders for u
NotAvailablePage(u) ==
    <<60>> \o ToDisplayString(u) \o <<124>> \o ToDisplayString(u)
      \o NotAvailableMsg \o <<62>>

\* the handler found by context c requires a backend other than the active one
Gated(c) == handler[c].backend \in Backends /\ handler[c].backend # backend

\* C7: a handler registered for backend B2 and dispatched while the active
\* backend is another one never has its function executed; the dispatch
\* returns 'text/html' with the "is not available with this backend" page
\* for the requested URL.
C7_WrongBackendNeverRunsFunction ==
    \A c \in Contexts :
        (pc[c] # "idle" /\ Gated(c)) =>
            /\ calls[c] = <<>>
            /\ Done(c) =>
                 /\ nInvoke[c] = 1
                 /\ res[c] = Return("text/html", StrBody(NotAvailablePage(url[c])))
                 /\ outcome[c] =
                      Return("text/html",
                             BytesBody(Encode(NotAvailablePage(url[c]))))

\* a dispatch to a handler that requires the other backend has returned
C7_Witness ==
    \E c \in Contexts :
        /\ Done(c)
        /\ Gated(c)
        /\ nInvoke[c] = 1
        /\ outcome[c].kind = "return"

\* ---------------------------------------------------------------- C8
\* C8: the registry entry made by add_handler(n, backend)(h), invoked when
\* the backend requirement is absent or equal to the active backend, calls h
\* exactly once with the arguments it got and hands back what h returned or
\* raised, unchanged.
C8_EntryDelegatesToFunction ==
    \A c \in Contexts :
        (Done(c) /\ nInvoke[c] = 1 /\ ~Gated(c)) =>
            /\ url[c].host \in DOMAIN lastReg
            /\ Len(calls[c]) = 1
            /\ calls[c][1].function = lastReg[url[c].host].function
            /\ calls[c][1].url = url[c]
            /\ res[c] = calls[c][1].result

\* a handler registered for the active backend was invoked and raised
C8_Witness ==
    \E c \in Contexts :
        /\ Done(c)
        /\ nInvoke[c] = 1
        /\ handler[c].backend = backend
        /\ Len(calls[c]) = 1
        /\ res[c].kind = "raise"

\* ---------------------------------------------------------------- C9
\* C9: the registry holds, for every name, the function and the backend of
\* the latest registration under that name (a registration under another
\* name does not touch it), and a dispatch to the name reaches that function
\* under that backend requirement.
C9_LastRegistrationWins ==
    /\ DOMAIN HANDLERS = DOMAIN lastReg
    /\ \A n \in DOMAIN lastReg : HANDLERS[n] = lastReg[n]
    /\ \A c \in Contexts :
         (Done(c) /\ nInvoke[c] = 1) =>
            /\ handler[c] = lastReg[url[c].host]
            /\ \A i \in 1..Len(calls[c]) :
                 calls[c][i].function = lastReg[url[c].host].function
            /\ calls[c] = <<>> <=>
                 /\ lastReg[url[c].host].backend # NoBackend
                 /\ lastReg[url[c].host].backend # backend

\* a name registered again with another function was dispatched, with
\* another name registered as well, and the latest function ran
C9_Witness ==
    \E c \in Contexts :
        /\ Done(c)
        /\ url[c].host \in overwritten
        /\ DOMAIN HANDLERS = Names
        /\ calls[c] # <<>>
        /\ calls[c][1].function = lastReg[url[c].host].function

\* --------------------------------------------------------------- C10
\* C10: a call whose URL has a non-empty path, an empty host and a path that
\* is a valid authority raises Redirect before any registry lookup: no
\* handler is invoked, whether or not the name is registered.
C10_ShorthandRedirectsBeforeLookup ==
    \A c \in Contexts :
        (pc[c] # "idle" /\ IsShorthand(url[c])) =>
            /\ pc[c] \in {"canonicalizing", "done"}
            /\ nLookup[c] = 0
            /\ nInvoke[c] = 0
            /\ calls[c] = <<>>
            /\ handler[c] = NoEntry
            /\ Done(c) => Raised(c, "Redirect")

\* a shorthand URL naming a registered handler ended in Redirect
C10_Witness ==
    \E c \in Contexts :
        /\ Done(c)
        /\ url[c].host = <<>>
        /\ url[c].path \in DOMAIN HANDLERS
        /\ Raised(c, "Redirect")
        /\ nLookup[c] = 0

\* --------------------------------------------------------------- C11
\* C11 as stated: the Redirect target of a shorthand URL has the scheme of
\* the input URL, the input's path as host (held lower-cased by QUrl), and
\* the path "/".
C11_TargetKeepsInputScheme ==
    \A c \in Contexts :
        (Done(c) /\ Raised(c, "Redirect")) =>
            /\ outcome[c].exc.url.scheme = url[c].scheme
            /\ outcome[c].exc.url.host =
                 [i \in 1..Len(url[c].path) |-> LowerChar(url[c].path[i])]
            /\ outcome[c].exc.url.path = <<47>>

\* C11 amended: the Redirect target of a shorthand URL has the scheme
\* "qute" whatever the scheme of the input, host equal to the input's path
\* as QUrl normalises a host (lower-cased), and the path "/".
C11_TargetIsQuteCanonical ==
    \A c \in Contexts :
        (Done(c) /\ Raised(c, "Redirect")) =>
            /\ outcome[c].exc.url.scheme = <<113, 117, 116, 101>>
            /\ outcome[c].exc.url.host =
                 [i \in 1..Len(url[c].path) |-> LowerChar(url[c].path[i])]
            /\ outcome[c].exc.url.path = <<47>>
            /\ outcome[c].exc.url.host # <<>>

\* the shorthand app:A was redirected to qute://a/
C11_Witness ==
    \E c \in Contexts :
        /\ Done(c)
        /\ url[c] = [scheme |-> AppScheme, host |-> <<>>, path |-> <<65>>]
        /\ Raised(c, "Redirect")
        /\ outcome[c].exc.url =
             [scheme |-> QuteScheme, host |-> <<97>>, path |-> <<47>>]

\* --------------------------------------------------------------- C12
\* C12 as stated: a handler result whose content type is empty or missing
\* never becomes a Success; data_for_url raises AssertionError instead.
C12_NoContentTypeNeverSuccess ==
    \A c \in Contexts :
        (Done(c) /\ res[c].kind = "return" /\ res[c].mimetype \in {NoneType, ""}) =>
            outcome[c] = Raise([type |-> "AssertionError", args |-> url[c]])

\* C12 amended: a handler result whose content type is None never becomes a
\* Success, data_for_url raises AssertionError instead; a result whose
\* content type is the empty string is returned as a Success with that
\* content type.
C12_NoneContentTypeNeverSuccess ==
    \A c \in Contexts :
        (Done(c) /\ res[c].kind = "return") =>
            /\ res[c].mimetype = NoneType =>
                 outcome[c] = Raise([type |-> "AssertionError", args |-> url[c]])
            /\ res[c].mimetype = "" =>
                 outcome[c] = Return("", res[c].data)

\* a decorated function returned the empty content type and the call
\* returned it
C12_Witness ==
    \E c \in Contexts :
        /\ Done(c)
        /\ calls[c] # <<>>
        /\ res[c].kind = "return"
        /\ res[c].mimetype = ""
        /\ outcome[c].kind = "return"

\* --------------------------------------------------------------- C13
\* C13: for a handler returning 'text/html' with a text body, data_for_url
\* returns bytes and never fails; a character UTF-8 cannot encode (an
\* unpaired surrogate) becomes its numeric character reference, every other
\* character is kept (as its UTF-8 bytes).
C13_HtmlTextAlwaysEncodes ==
    \A c \in Contexts :
        (Done(c) /\ res[c].kind = "return" /\ res[c].mimetype = "text/html"
           /\ res[c].data.type = "str") =>
            /\ outcome[c].kind = "return"
            /\ outcome[c].mimetype = "text/html"
            /\ outcome[c].data.type = "bytes"
            /\ \A i \in 1..Len(outcome[c].data.val) :
                 outcome[c].data.val[i] \in 0..255
            /\ res[c].data.val = <<104, 105>> =>
                 outcome[c].data.val = <<104, 105>>
            \* "é\ud800" -> b"\xc3\xa9&#55296;"
            /\ res[c].data.val = <<233, 55296>> =>
                 outcome[c].data.val = <<195, 169, 38, 35, 53, 53, 50, 57, 54, 59>>
            /\ (\A i \in 1..Len(res[c].data.val) : res[c].data.val[i] < 128) =>
                 outcome[c].data.val = res[c].data.val

\* a decorated function returned HTML text with an unpaired surrogate and
\* the call returned bytes
C13_Witness ==
    \E c \in Contexts :
        /\ Done(c)
        /\ res[c] = Return("text/html", StrBody(<<233, 55296>>))
        /\ outcome[c].kind = "return"
        /\ outcome[c].data.type = "bytes"

\* --------------------------------------------------------------- C14
\* C14: a body that the handler supplies as bytes is returned unchanged,
\* with the handler's content type unchanged, for every content type the
\* handler declares, 'text/html' included.
C14_BytesPassThrough ==
    \A c \in Contexts :
        (Done(c) /\ res[c].kind = "return" /\ res[c].data.type = "bytes"
           /\ res[c].mimetype # NoneType) =>
            /\ outcome[c].kind = "return"
            /\ outcome[c].mimetype = res[c].mimetype
            /\ outcome[c].data = res[c].data

\* a decorated function returned ('text/html', b"hi") and the call returned
\* the same pair
C14_Witness ==
    \E c \in Contexts :
        /\ Done(c)
        /\ res[c] = Return("text/html", BytesBody(<<104, 105>>))
        /\ outcome[c] = res[c]

\* --------------------------------------------------------------- C15
\* C15: a call whose URL has a non-empty path, an empty host and a path
\* that is not a valid authority raises no Redirect, looks the empty host up
\* in the registry and ends in NoHandlerFound.
C15_InvalidAuthorityIsNotFound ==
    \A c \in Contexts :
        (pc[c] # "idle" /\ url[c].host = <<>> /\ url[c].path # <<>>
           /\ ~ValidAuthority(url[c].path)) =>
            /\ nInvoke[c] = 0
            /\ pc[c] # "invoking"
            /\ Done(c) =>
                 /\ nLookup[c] = 1
                 /\ outcome[c] = Raise(NoHandlerFound(url[c]))

\* the URL qute:a/ was dispatched while a handler was registered and the
\* call ended in NoHandlerFound after one lookup
C15_Witness ==
    \E c \in Contexts :
        /\ Done(c)
        /\ url[c].host = <<>>
        /\ url[c].path = <<97, 47>>
        /\ DOMAIN HANDLERS # {}
        /\ nLookup[c] = 1
        /\ Raised(c, "NoHandlerFound")

\* --------------------------------------------------------------- C16
\* C16: the registry changes only through registration: every step keeps
\* all registered names, a step that changes the registry sets one name to
\* one entry and is not a step of a call, and every step of a call,
\* whatever its outcome, leaves the registry and pyeval_output as they are.
C16_RegistryChangesOnlyByRegistration ==
    [][/\ DOMAIN HANDLERS \subseteq DOMAIN HANDLERS'
       /\ (HANDLERS' # HANDLERS) =>
            /\ pc' = pc
            /\ \E n \in Names, f \in Functions, be \in Backends \cup {NoBackend} :
                 HANDLERS' = (n :> [function |-> f, backend |-> be]) @@ HANDLERS
       /\ (pc' # pc) =>
            /\ HANDLERS' = HANDLERS
            /\ pyeval_output' = pyeval_output]_vars

\* a call has ended in QuteSchemeOSError on a registry that has grown since
\* the module was loaded, with pyeval_output written
C16_Witness ==
    \E c \in Contexts :
        /\ Done(c)
        /\ Raised(c, "QuteSchemeOSError")
        /\ DOMAIN HANDLERS # DOMAIN ModuleHandlers
        /\ DOMAIN ModuleHandlers \subseteq DOMAIN HANDLERS
        /\ pyeval_output # PyevalPlaceholder

\* --------------------------------------------------------------- C17
\* whether the handler registered for the URL u reads pyeval_output
ReadsSlot(u) == Lookup(HANDLERS, u.host).function = "qute_pyeval"

\* C17: with the registry populated before any call and the backend fixed,
\* under every interleaving of the calls of several contexts (and of writes
\* of pyeval_output), a finished call on a URL whose handler does not read
\* pyeval_output has run the function registered for its own URL, and its
\* outcome is that of data_for_url alone on the same registry, backend and
\* URL.
C17_ConcurrentDispatchesDoNotInterfere ==
    \A c \in Contexts :
        (Done(c) /\ ~ReadsSlot(url[c])) =>
            /\ BehaviourOf(c) \in
                 FunctionBehaviours(Lookup(HANDLERS, url[c].host).function,
                                    url[c], query[c])
            /\ outcome[c] =
                 data_for_url(HANDLERS, backend, url[c], BehaviourOf(c))

\* one context has finished a call in which the function ran, while the
\* other is inside a call of the pyeval handler, after a write
C17_Witness ==
    /\ Done(1)
    /\ url[1].host = <<97>>
    /\ calls[1] # <<>>
    /\ pc[2] = "invoking"
    /\ url[2].host = PyevalName
    /\ lastWritten # NoWrite

\* --------------------------------------------------------------- C18
\* the value pyeval_output holds by its history: the latest write, or the
\* placeholder before any write
LatestWrite == IF lastWritten = NoWrite THEN PyevalPlaceholder ELSE lastWritten

\* C18: under every interleaving of writes of pyeval_output and calls of the
\* pyeval handler, the step in which the handler runs renders the value of
\* the latest write before it, or the placeholder if there was none.
C18_PyevalRendersLatestWrite ==
    [][\A c \in Contexts :
         (/\ pc[c] = "invoking"
          /\ pc'[c] = "done"
          /\ handler[c].function = "qute_pyeval") =>
             /\ res'[c] =
                  Return("text/html", StrBody(RenderPage(PreHtml, LatestWrite)))
             /\ outcome'[c] =
                  Return("text/html",
                         BytesBody(Encode(RenderPage(PreHtml, LatestWrite))))]_vars

\* a call of the pyeval handler rendered the first write, a second write
\* followed, and the other context is inside a call
C18_Witness ==
    \E c \in Contexts, d \in Contexts :
        /\ c # d
        /\ Done(c)
        /\ handler[c].function = "qute_pyeval"
        /\ res[c].data.val = RenderPage(PreHtml, <<49>>)
        /\ pyeval_output = <<50>>
        /\ pc[d] # "idle"

\* --------------------------------------------------------------- C19
BadOffset(q) == q.offset # <<>> /\ ~IsInt(q.offset)

BadStartTime(q) == q.start_time # <<>> /\ ~IsFloat(q.start_time)

BadDate(q) == q.date # <<>> /\ ~IsIsoDate(q.date)

BadLevel(q) == q.level # <<>> /\ q.level \notin LogLevels

OnHistoryData(c) == url[c].host = HistoryName /\ url[c].path = DataPath

OnHistoryPage(c) == url[c].host = HistoryName /\ url[c].path # DataPath

OnLog(c) == url[c].host \in {PlainlogName, LogName}

\* C19 as stated: a call whose offset is not an integer or whose start_time
\* is not a number (history data), whose date is not an ISO date (history
\* page) or whose level is not a log level (log pages) ends in
\* QuteSchemeError.
C19_MalformedQueryIsSignaledError ==
    \A c \in Contexts :
        (/\ Done(c)
         /\ \/ OnHistoryData(c) /\ (BadOffset(query[c]) \/ BadStartTime(query[c]))
            \/ OnHistoryPage(c) /\ BadDate(query[c])
            \/ OnLog(c) /\ BadLevel(query[c])) =>
            Raised(c, "QuteSchemeError")

\* C19 amended: on qute://history/data a malformed offset or start_time ends
\* in QuteSchemeError and well-formed ones end in Success; the history page
\* ends in Success whatever the date, a malformed date being replaced by
\* today's date; the log pages do not validate level: a call on them fails
\* only with what dump_log raised for the level.
C19_OnlyOffsetAndStartTimeAreValidated ==
    \A c \in Contexts :
        Done(c) =>
            /\ (OnHistoryData(c)
                  /\ (BadOffset(query[c]) \/ BadStartTime(query[c]))) =>
                   Raised(c, "QuteSchemeError")
            /\ (OnHistoryData(c)
                  /\ ~BadOffset(query[c]) /\ ~BadStartTime(query[c])) =>
                   outcome[c].kind = "return"
            /\ OnHistoryPage(c) =>
                   /\ outcome[c].kind = "return"
                   /\ (BadDate(query[c])
                         /\ res[c] # Return("text/html",
                                            StrBody(RenderPage(HistoryHtml, <<>>)))) =>
                          res[c] = Return("text/html",
                                          StrBody(RenderPage(HistoryNojsHtml, Today)))
            /\ (OnLog(c) /\ outcome[c].kind = "raise") =>
                   /\ BadLevel(query[c])
                   /\ \E e \in Envs : outcome[c] = dump_log(query[c].level, e)

\* a call on qute://history/data with a well-formed offset and a malformed
\* start_time has ended in QuteSchemeError
C19_Witness ==
    \E c \in Contexts :
        /\ Done(c)
        /\ OnHistoryData(c)
        /\ query[c].offset # <<>>
        /\ ~BadOffset(query[c])
        /\ BadStartTime(query[c])
        /\ Raised(c, "QuteSchemeError")

\* --------------------------------------------------------------- C20
\* C20: after a stacked registration every alias has its own entry with the
\* same undecorated function, and a finished call on an alias is decided by
\* that alias's own backend requirement alone: if it names another backend
\* the function did not run and the result is the not-available page,
\* otherwise the function ran once and its result is the entry's result.
C20_AliasesDelegateToSameFunction ==
    /\ aliases \subseteq DOMAIN HANDLERS
    /\ \A n1 \in aliases, n2 \in aliases :
         /\ HANDLERS[n1].function = HANDLERS[n2].function
         /\ HANDLERS[n1].function \in Functions
    /\ \A c \in Contexts :
         (Done(c) /\ url[c].host \in aliases /\ nInvoke[c] > 0) =>
             LET own == HANDLERS[url[c].host]
             IN  IF own.backend # NoBackend /\ own.backend # backend
                 THEN /\ calls[c] = <<>>
                      /\ res[c] = wrong_backend_handler(url[c])
                 ELSE /\ Len(calls[c]) = 1
                      /\ calls[c][1].function = own.function
                      /\ res[c] = calls[c][1].result

\* two aliases from one stacked registration, one requiring the backend
\* that is not active; a call on the other alias ran the function
C20_Witness ==
    \E c \in Contexts, n \in aliases :
        /\ Done(c)
        /\ url[c].host \in aliases
        /\ n # url[c].host
        /\ HANDLERS[n].backend \in Backends
        /\ HANDLERS[n].backend # backend
        /\ calls[c] # <<>>
        /\ calls[c][1].function = HANDLERS[n].function

====
